---- MODULE Spec2Model ----
(***************************************************************************)
(* A model of the Slackware package builder.                               *)
(*                                                                         *)
(* Two programs live in the repository:                                    *)
(*   "legacy"  : src/main.py, the consolidated single-file version (batch  *)
(*               only, Cargo builder, Package with branch/version);        *)
(*   "modular" : src/src/slackware_pkg, the package (batch and --package   *)
(*               mode, release downloads, Package with tag).               *)
(*                                                                         *)
(* A Python string is a sequence of one-character strings; None is the     *)
(* one-element sequence NoneValue, which no Python string equals.  A       *)
(* Python object is a record; reading an attribute the record does not     *)
(* have raises AttributeError, reading a key a dict does not have raises   *)
(* KeyError.                                                               *)
(***************************************************************************)
EXTENDS Integers, Sequences, FiniteSets, TLC

VARIABLES
    prog,       \* which program runs: "legacy" or "modular"
    argv,       \* parsed command line: [package, output, temp]
    config,     \* the configuration file: [state, data]
    packages,   \* self.packages of the orchestrator
    build_root, \* self.build_root
    tmp_root,   \* self.tmp_root
    idx,        \* position of the batch loop in self.packages (0 before it)
    pc,         \* position of the control flow
    runs,       \* one record per package the orchestrator has handled
    fs,         \* the paths that exist on the filesystem
    exitCode,   \* the exit status of the process, NoExit while it runs
    inp,        \* input of the pure function under check
    out         \* its result

vars == <<prog, argv, config, packages, build_root, tmp_root, idx, pc, runs,
          fs, exitCode, inp, out>>

-----------------------------------------------------------------------------
(* Strings *)

NoneValue == <<"<None>">>

Digits == {"0", "1", "2", "3", "4", "5", "6", "7", "8", "9"}

\* str.isdigit on one character
isdigit(c) == c \in Digits

\* s[n:] for 0 <= n
DropFirst(s, n) == IF n >= Len(s) THEN <<>> ELSE SubSeq(s, n + 1, Len(s))

\* s[:-n] for 0 < n
DropLast(s, n) == IF n >= Len(s) THEN <<>> ELSE SubSeq(s, 1, Len(s) - n)

\* str.startswith
startswith(s, p) == Len(s) >= Len(p) /\ SubSeq(s, 1, Len(p)) = p

\* str.endswith
endswith(s, p) ==
    Len(s) >= Len(p) /\ SubSeq(s, Len(s) - Len(p) + 1, Len(s)) = p

\* str.rstrip(chars) for a one-character argument
RECURSIVE rstrip(_, _)
rstrip(s, c) ==
    IF s # <<>> /\ s[Len(s)] = c THEN rstrip(DropLast(s, 1), c) ELSE s

\* str.strip() on the lines create_slack_desc builds: blanks at both ends
RECURSIVE lstrip(_, _)
lstrip(s, c) == IF s # <<>> /\ s[1] = c THEN lstrip(Tail(s), c) ELSE s

strip(s) == lstrip(rstrip(s, " "), " ")

\* str(n) for a natural number
DigitOf(d) ==
    <<"0", "1", "2", "3", "4", "5", "6", "7", "8", "9">>[d + 1]

RECURSIVE IntStr(_)
IntStr(n) ==
    IF n < 10 THEN <<DigitOf(n)>>
    ELSE IntStr(n \div 10) \o <<DigitOf(n % 10)>>

\* c * n
RECURSIVE Repeat(_, _)
Repeat(c, n) == IF n <= 0 THEN <<>> ELSE <<c>> \o Repeat(c, n - 1)

\* pathlib: parent / child
Join(parent, child) == parent \o <<"/">> \o child

S_git == <<".", "g", "i", "t">>
S_tgz == <<".", "t", "g", "z">>
S_x86_64 == <<"x", "8", "6", "_", "6", "4">>
S_build == <<"-", "b", "u", "i", "l", "d">>
S_slackware64_current ==
    <<"s", "l", "a", "c", "k", "w", "a", "r", "e", "6", "4", "-",
      "c", "u", "r", "r", "e", "n", "t">>
S_install_staging ==
    <<"i", "n", "s", "t", "a", "l", "l", "_", "s", "t", "a", "g", "i", "n", "g">>
S_releases_download ==
    <<"/", "r", "e", "l", "e", "a", "s", "e", "s", "/",
      "d", "o", "w", "n", "l", "o", "a", "d", "/">>
S_linux64_tgz ==
    <<"-", "l", "i", "n", "u", "x", "6", "4", ".", "t", "g", "z">>

\* Results of calls that may raise: a value or an exception
Ok(v) == [ok |-> TRUE, val |-> v]
Raise(e) == [ok |-> FALSE, exc |-> e]

HasAttr(obj, a) == a \in DOMAIN obj

-----------------------------------------------------------------------------
(* models.py: Package *)

\* Package._derive_version_from_tag
derive_version_any_v(tag) ==
    IF startswith(tag, <<"v">>) /\ Len(tag) > 1 THEN DropFirst(tag, 1) ELSE tag

derive_version_from_tag(tag) ==
    IF startswith(tag, <<"v">>) /\ Len(tag) > 1 /\ isdigit(tag[2])
    THEN DropFirst(tag, 1)
    ELSE tag

\* dict.get(key, default)
Get(d, k, default) == IF k \in DOMAIN d THEN d[k] ELSE default

\* Package.__init__ of the modular program
Package(name, git_url, tag, description, build, enabled, release, build_command, bin_path) ==
    [name |-> name, git_url |-> git_url, tag |-> tag,
     description |-> description, build |-> build, enabled |-> enabled,
     release |-> release, build_command |-> build_command,
     bin_path |-> bin_path, version |-> derive_version_from_tag(tag)]

\* Package.from_dict of the modular program: KeyError on a missing
\* required key
from_dict(data) ==
    IF ~ {"name", "git_url", "tag"} \subseteq DOMAIN data
    THEN Raise("KeyError")
    ELSE Ok(Package(data.name, data.git_url, data.tag,
                    Get(data, "description", <<>>),
                    Get(data, "build", 1),
                    Get(data, "enabled", TRUE),
                    Get(data, "release", FALSE),
                    Get(data, "build_command", NoneValue),
                    Get(data, "bin_path", NoneValue)))

\* Package of the legacy program (a dataclass) with __post_init__; an
\* absent binaries list is <<NoneValue>>
LegacyPackage(name, git_url, branch, version, description, build, enabled, binaries) ==
    [name |-> name, git_url |-> git_url, branch |-> branch,
     version |-> version, description |-> description, build |-> build,
     enabled |-> enabled,
     binaries |-> IF binaries = <<NoneValue>> THEN <<name>> ELSE binaries]

\* Package.from_dict of the legacy program
legacy_from_dict(data) ==
    IF ~ {"name", "git_url", "branch", "version"} \subseteq DOMAIN data
    THEN Raise("KeyError")
    ELSE Ok(LegacyPackage(data.name, data.git_url, data.branch, data.version,
                          Get(data, "description", <<>>),
                          Get(data, "build", 1),
                          Get(data, "enabled", TRUE),
                          Get(data, "binaries", <<NoneValue>>)))

-----------------------------------------------------------------------------
(* release.py: ReleaseDownloader.construct_release_url *)

construct_release_url(pkg) ==
    LET stripped == rstrip(pkg.git_url, "/")
        git_url == IF endswith(stripped, S_git)
                   THEN DropLast(stripped, 4)
                   ELSE stripped
    IN  IF ~ HasAttr(pkg, "branch")
        THEN Raise("AttributeError")
        ELSE Ok(git_url \o S_releases_download \o pkg.branch \o <<"/">>
                \o pkg.name \o <<"-">> \o pkg.version \o S_linux64_tgz)

\* the file name create_package_archive builds
pkg_filename_without_build(pkg, arch) ==
    pkg.name \o <<"-">> \o pkg.version \o <<"-">> \o arch \o S_tgz

pkg_filename(pkg, arch) ==
    pkg.name \o <<"-">> \o pkg.version \o <<"-">> \o arch \o <<"-">>
    \o IntStr(pkg.build) \o S_tgz

-----------------------------------------------------------------------------
(* packager.py: SlackwarePackager.create_slack_desc *)

S_header1 ==
    <<"#", " ", "H", "O", "W", " ", "T", "O", " ", "E", "D", "I", "T",
      " ", "T", "H", "I", "S", " ", "F", "I", "L", "E", ":">>

S_header2 ==
    <<"#", " ", "T", "h", "e", " ", "\"", "h", "a", "n", "d", "y", " ",
      "r", "u", "l", "e", "r", "\"", " ", "b", "e", "l", "o", "w", " ",
      "m", "a", "k", "e", "s", " ", "i", "t", " ", "e", "a", "s", "i",
      "e", "r", " ", "t", "o", " ", "e", "d", "i", "t", " ", "a", " ",
      "p", "a", "c", "k", "a", "g", "e", " ", "d", "e", "s", "c", "r",
      "i", "p", "t", "i", "o", "n", ".">>

S_header3 ==
    <<"#", " ", "L", "i", "n", "e", " ", "u", "p", " ", "t", "h", "e",
      " ", "f", "i", "r", "s", "t", " ", "'", "|", "'", " ", "a", "b",
      "o", "v", "e", " ", "t", "h", "e", " ", "'", ":", "'", " ", "f",
      "o", "l", "l", "o", "w", "i", "n", "g", " ", "t", "h", "e", " ",
      "b", "a", "s", "e", " ", "p", "a", "c", "k", "a", "g", "e", " ",
      "n", "a", "m", "e", ",", " ", "a", "n", "d">>

S_header4 ==
    <<"#", " ", "t", "h", "e", " ", "'", "|", "'", " ", "o", "n", " ",
      "t", "h", "e", " ", "r", "i", "g", "h", "t", " ", "s", "i", "d",
      "e", " ", "m", "a", "r", "k", "s", " ", "t", "h", "e", " ", "l",
      "a", "s", "t", " ", "c", "o", "l", "u", "m", "n", " ", "y", "o",
      "u", " ", "c", "a", "n", " ", "p", "u", "t", " ", "a", " ", "c",
      "h", "a", "r", "a", "c", "t", "e", "r", " ", "i", "n", ".">>

S_header5 ==
    <<"#", " ", "Y", "o", "u", " ", "m", "u", "s", "t", " ", "m", "a",
      "k", "e", " ", "e", "x", "a", "c", "t", "l", "y", " ", "1", "1",
      " ", "l", "i", "n", "e", "s", " ", "f", "o", "r", " ", "t", "h",
      "e", " ", "f", "o", "r", "m", "a", "t", "t", "i", "n", "g", " ",
      "t", "o", " ", "b", "e", " ", "c", "o", "r", "r", "e", "c", "t",
      ".", " ", " ", "I", "t", "'", "s", " ", "a", "l", "s", "o">>

S_header6 ==
    <<"#", " ", "c", "u", "s", "t", "o", "m", "a", "r", "y", " ", "t",
      "o", " ", "l", "e", "a", "v", "e", " ", "o", "n", "e", " ", "s",
      "p", "a", "c", "e", " ", "a", "f", "t", "e", "r", " ", "t", "h",
      "e", " ", "'", ":", "'", ".">>

S_ruler ==
    <<"|", "-", "-", "-", "-", "-", "h", "a", "n", "d", "y", "-", "r",
      "u", "l", "e", "r", "-", "-", "-", "-", "-", "-", "-", "-", "-",
      "-", "-", "-", "-", "-", "-", "-", "-", "-", "-", "-", "-", "-",
      "-", "-", "-", "-", "-", "-", "-", "-", "-", "-", "-", "-", "-",
      "-", "-", "-", "-", "-", "-", "-", "-", "-", "-", "-", "-", "-",
      "-", "-", "-", "-", "-", "-", "|">>

LineBudget == 60
DescLines == 11

Whitespace == {" ", "\t", "\n"}

\* first position >= i of s that holds no whitespace, Len(s) + 1 if none
RECURSIVE SkipWs(_, _)
SkipWs(s, i) ==
    IF i > Len(s) \/ s[i] \notin Whitespace THEN i ELSE SkipWs(s, i + 1)

\* last position of the word of s that starts at i
RECURSIVE WordEnd(_, _)
WordEnd(s, i) ==
    IF i = Len(s) \/ s[i + 1] \in Whitespace THEN i ELSE WordEnd(s, i + 1)

RECURSIVE split_from(_, _)
split_from(s, i) ==
    LET b == SkipWs(s, i)
    IN  IF b > Len(s) THEN <<>>
        ELSE LET e == WordEnd(s, b)
             IN  <<SubSeq(s, b, e)>> \o split_from(s, e + 1)

\* str.split() with no argument
split(s) == split_from(s, 1)

\* the loop over words, then the flush of the last line
RECURSIVE wrap_words(_, _, _)
wrap_words(words, desc_lines, current_line) ==
    IF words = <<>>
    THEN IF current_line # <<>>
         THEN Append(desc_lines, strip(current_line))
         ELSE desc_lines
    ELSE LET word == Head(words)
         IN  IF Len(current_line) + Len(word) + 1 <= LineBudget
             THEN wrap_words(Tail(words), desc_lines,
                             current_line \o word \o <<" ">>)
             ELSE wrap_words(Tail(words),
                             Append(desc_lines, strip(current_line)),
                             word \o <<" ">>)

wrap_description(desc) == wrap_words(split(desc), <<>>, <<>>)

ruler_line(name) == Repeat(" ", Len(name) - 1) \o S_ruler

\* the label lines: DescLines of them, blank ones without trailing text
label_lines_untruncated(name, desc_lines) ==
    [i \in 1..(IF Len(desc_lines) > DescLines THEN Len(desc_lines) ELSE DescLines) |->
        IF i <= Len(desc_lines)
        THEN name \o <<":", " ">> \o desc_lines[i]
        ELSE name \o <<":">>]

label_lines(name, desc_lines) ==
    [i \in 1..DescLines |->
        IF i <= Len(desc_lines)
        THEN name \o <<":", " ">> \o desc_lines[i]
        ELSE name \o <<":">>]

HeaderLines ==
    <<S_header1, S_header2, S_header3, S_header4, S_header5, S_header6,
      <<>>>>

\* the lines create_slack_desc writes to install/slack-desc
create_slack_desc(pkg) ==
    HeaderLines \o <<ruler_line(pkg.name)>>
    \o label_lines(pkg.name, wrap_description(pkg.description))

-----------------------------------------------------------------------------
(* Bounds and sample inputs *)

\* longest packages array of a configuration file
MaxPkgs == 2

S_foo == <<"f", "o", "o">>
S_bar == <<"b", "a", "r">>
S_baz == <<"b", "a", "z">>
S_url == <<"h", "/", "r", ".", "g", "i", "t">>
S_v1 == <<"v", "1">>
S_one == <<"1">>
S_make == <<"m", "a", "k", "e">>
S_build_dir == <<"b", "u", "i", "l", "d">>
S_tmp == <<"t", "m", "p">>
S_output == <<"o", "u", "t", "p", "u", "t">>
S_cfg_out == <<"O">>
S_cfg_tmp == <<"T">>

\* package records of a configuration file of the modular program
ModularDicts ==
    { [name |-> S_foo, git_url |-> S_url, tag |-> S_v1,
       build_command |-> S_make, bin_path |-> S_foo],
      [name |-> S_foo, git_url |-> S_url, tag |-> S_v1, enabled |-> FALSE,
       build_command |-> S_make, bin_path |-> S_foo],
      [name |-> S_bar, git_url |-> S_url, tag |-> S_v1, release |-> TRUE],
      [name |-> S_bar, git_url |-> S_url, tag |-> S_v1, release |-> TRUE,
       enabled |-> FALSE],
      [name |-> S_foo, git_url |-> S_url, tag |-> S_v1, bin_path |-> S_foo],
      [name |-> S_bar, git_url |-> S_url] }

\* package records of a configuration file of the legacy program
LegacyDicts ==
    { [name |-> S_foo, git_url |-> S_url, branch |-> S_v1, version |-> S_one],
      [name |-> S_foo, git_url |-> S_url, branch |-> S_v1, version |-> S_one,
       enabled |-> FALSE],
      [name |-> S_bar, git_url |-> S_url, branch |-> S_v1, version |-> S_one,
       binaries |-> <<S_bar, S_baz>>],
      [name |-> S_bar, git_url |-> S_url, branch |-> S_v1] }

SeqsUpTo(S, n) == UNION {[1..k -> S] : k \in 0..n}

Configs(dicts) ==
    {[state |-> "missing"], [state |-> "invalid"]}
    \cup {[state |-> "ok", data |-> [packages |-> ps]] :
             ps \in SeqsUpTo(dicts, MaxPkgs)}
    \cup {[state |-> "ok",
           data |-> [packages |-> ps, output_path |-> S_cfg_out,
                     temp_path |-> S_cfg_tmp]] :
             ps \in SeqsUpTo(dicts, MaxPkgs)}
    \cup {[state |-> "ok",
           data |-> [packages |-> ps, output_path |-> <<>>,
                     temp_path |-> NoneValue]] :
             ps \in SeqsUpTo(dicts, MaxPkgs)}
    \cup {[state |-> "ok",
           data |-> [packages |-> ps, output_path |-> S_cfg_out]] :
             ps \in SeqsUpTo(dicts, MaxPkgs)}

-----------------------------------------------------------------------------
(* The environment one package's pipeline meets: the first step that goes  *)
(* wrong (the pipeline stops there, so later steps are never consulted),   *)
(* and which of the requested binaries the build leaves behind.            *)

Faults ==
    {"none", "mkdir_output", "mkdir_temp", "clone_nonzero", "clone_raise",
     "mkdir_staging", "no_manifest", "build_nonzero", "build_raise",
     "slack_desc_raise", "tar_nonzero", "tar_raise", "curl_nonzero",
     "curl_raise", "rmtree_fail"}

SetOf(seq) == {seq[i] : i \in 1..Len(seq)}

\* the binaries the builder of this package looks for after the build
Requested(pkg) ==
    IF HasAttr(pkg, "binaries") THEN SetOf(pkg.binaries) ELSE {pkg.bin_path}

Envs(pkg) ==
    {[fault |-> f, present |-> Requested(pkg)] : f \in Faults}
    \cup {[fault |-> "none", present |-> P] : P \in SUBSET Requested(pkg)}

NoEnv == [fault |-> "none", present |-> {}]

-----------------------------------------------------------------------------
(* Paths *)

output_dir_of(root, name) == Join(Join(root, S_slackware64_current), name)
temp_dir_of(root, name) == Join(root, name \o S_build)
repo_path_of(temp_dir, name) == Join(temp_dir, name)
install_dir_of(temp_dir) == Join(temp_dir, S_install_staging)

\* shutil.rmtree(d): d and everything below it
rmtree_keeping(files, d) == files

rmtree(files, d) ==
    {p \in files : ~ (p = d \/ startswith(p, d \o <<"/">>))}

-----------------------------------------------------------------------------
(* The orchestrator's record of one package *)

NewRun(i, pkg, env, status) ==
    [idx |-> i, pkg |-> pkg, env |-> env, ops |-> <<>>, status |-> status,
     artifact |-> NoneValue, curl_target |-> NoneValue]

Cur == runs[Len(runs)]

SetCur(r) == runs' = [runs EXCEPT ![Len(runs)] = r]

Did(r, op) == [r EXCEPT !.ops = Append(@, op)]

Batch == argv.package = NoneValue

Truthy(s) == s # NoneValue /\ s # <<>>

-----------------------------------------------------------------------------
(* builders.py and src/main.py: the build strategies *)

Result(ret, ops) == [ret |-> ret, ops |-> ops]

\* RustBuilder.can_build: the source tree holds Cargo.toml
RustBuilder_can_build(env) == env.fault # "no_manifest"

\* RustBuilder._install_artifacts: fails only when no requested binary is
\* a regular file of the release directory
RustBuilder_install_artifacts_unchecked(pkg, env) ==
    Result("True", <<"install">>)

RustBuilder_install_artifacts(pkg, env) ==
    LET installed == {b \in SetOf(pkg.binaries) : b \in env.present}
    IN  IF installed = {}
        THEN Result("False", <<>>)
        ELSE Result("True", <<"install">>)

\* RustBuilder.build: cargo build, then the installation
RustBuilder_build_ignoring_exit(pkg, env) ==
    IF env.fault = "build_raise" THEN Result("raise", <<"build_cmd">>)
    ELSE LET inst == RustBuilder_install_artifacts(pkg, env)
         IN  Result(inst.ret, <<"build_cmd">> \o inst.ops)

RustBuilder_build(pkg, env) ==
    IF env.fault = "build_raise" THEN Result("raise", <<"build_cmd">>)
    ELSE IF env.fault = "build_nonzero" THEN Result("False", <<"build_cmd">>)
    ELSE LET inst == RustBuilder_install_artifacts(pkg, env)
         IN  Result(inst.ret, <<"build_cmd">> \o inst.ops)

\* GenericBuilder.can_build: a non-empty build_command
GenericBuilder_can_build(pkg) == Truthy(pkg.build_command)

\* GenericBuilder.build: the shell command, then the one binary at bin_path
GenericBuilder_build(pkg, env) ==
    IF env.fault = "build_raise" THEN Result("raise", <<"build_cmd">>)
    ELSE IF env.fault = "build_nonzero" THEN Result("False", <<"build_cmd">>)
    ELSE IF pkg.bin_path \notin env.present
         THEN Result("False", <<"build_cmd">>)
         ELSE Result("True", <<"build_cmd", "install">>)

\* self.builders of the orchestrator
Builders_none_registered == <<>>

Builders == IF prog = "legacy" THEN <<"RustBuilder">> ELSE <<"GenericBuilder">>

Builder_can_build(builder, pkg, env) ==
    IF builder = "RustBuilder"
    THEN RustBuilder_can_build(env)
    ELSE GenericBuilder_can_build(pkg)

Builder_build(builder, pkg, env) ==
    IF builder = "RustBuilder"
    THEN RustBuilder_build(pkg, env)
    ELSE GenericBuilder_build(pkg, env)

\* SlackwarePackageBuilder.build_package: the first builder that claims
\* the package builds it; none claiming it is a failure
build_package_without_can_build(pkg, env) ==
    Builder_build(Builders[1], pkg, env)

build_package(pkg, env) ==
    LET claiming == {k \in 1..Len(Builders) : Builder_can_build(Builders[k], pkg, env)}
    IN  IF claiming = {}
        THEN Result("False", <<>>)
        ELSE Builder_build(
                 Builders[CHOOSE k \in claiming : \A j \in claiming : k <= j],
                 pkg, env)

-----------------------------------------------------------------------------
(* git.py: GitRepository.clone_or_update *)

clone_or_update_ignoring_exit(pkg, env) ==
    IF ~ HasAttr(pkg, "branch") THEN Result("raise", <<>>)
    ELSE IF env.fault = "clone_raise" THEN Result("raise", <<"git_clone">>)
    ELSE Result("repo_path", <<"git_clone">>)

clone_or_update(pkg, env) ==
    IF ~ HasAttr(pkg, "branch") THEN Result("raise", <<>>)
    ELSE IF env.fault = "clone_raise" THEN Result("raise", <<"git_clone">>)
    ELSE IF env.fault = "clone_nonzero" THEN Result("None", <<"git_clone">>)
    ELSE Result("repo_path", <<"git_clone">>)

(* release.py: ReleaseDownloader.download_release *)

release_filename(pkg, arch) ==
    pkg.name \o <<"-">> \o pkg.version \o <<"-">> \o arch \o <<"-">>
    \o IntStr(pkg.build) \o S_tgz

download_release(pkg, output_dir, env) ==
    IF ~ construct_release_url(pkg).ok THEN Result("raise", <<>>)
    ELSE IF env.fault = "curl_raise" THEN Result("raise", <<"curl">>)
    ELSE IF env.fault = "curl_nonzero" THEN Result("None", <<"curl">>)
    ELSE Result("output_file", <<"curl">>)

(* packager.py: SlackwarePackager.create_package_archive *)

create_package_archive(pkg, env) ==
    IF env.fault = "tar_raise" THEN Result("raise", <<"tar">>)
    ELSE IF env.fault = "tar_nonzero" THEN Result("None", <<"tar">>)
    ELSE Result("output_file", <<"tar">>)

-----------------------------------------------------------------------------
(* The process *)

\* the filesystem the program starts on: none of its directories exist
Init ==
    /\ prog \in {"legacy", "modular"}
    /\ argv \in IF prog = "legacy"
                THEN {[package |-> NoneValue, output |-> S_build_dir,
                       temp |-> S_tmp]}
                ELSE {[package |-> p, output |-> S_build_dir, temp |-> S_tmp] :
                         p \in {NoneValue, S_foo, S_bar, S_baz}}
    /\ config \in Configs(IF prog = "legacy" THEN LegacyDicts ELSE ModularDicts)
    /\ packages = <<>>
    /\ build_root = NoneValue
    /\ tmp_root = NoneValue
    /\ idx = 0
    /\ pc = "start"
    /\ runs = <<>>
    /\ fs = {}
    /\ exitCode = -1
    /\ inp = <<>>
    /\ out = <<>>

fixed == <<prog, argv, config, inp, out>>

\* sys.exit(code), or the interpreter ending
Exit(code) == pc' = "done" /\ exitCode' = code

\* SlackwarePackageBuilder.__init__
Construct(build, tmp) ==
    /\ build_root' = build
    /\ tmp_root' = tmp
    /\ fs' = fs \cup {build, tmp}

\* Package.from_dict of the program that runs
FromDict(data) ==
    IF prog = "legacy" THEN legacy_from_dict(data) ELSE from_dict(data)

\* main() up to the choice of the mode
Main ==
    /\ pc = "start"
    /\ IF prog = "modular" /\ config.state = "missing"
       THEN /\ Exit(1)
            /\ UNCHANGED <<build_root, tmp_root, fs>>
       ELSE IF prog = "modular" /\ ~ Batch
       THEN /\ pc' = "find"
            /\ UNCHANGED <<build_root, tmp_root, fs, exitCode>>
       ELSE /\ Construct(argv.output, argv.temp)
            /\ pc' = "load"
            /\ UNCHANGED exitCode
    /\ UNCHANGED <<fixed, packages, idx, runs>>

\* main() in --package mode: find_package_in_config, then the builder
FindPackage ==
    /\ pc = "find"
    /\ LET ds == IF config.state = "ok" THEN config.data.packages ELSE <<>>
           matches == {k \in 1..Len(ds) :
                          Get(ds[k], "name", NoneValue) = argv.package}
       IN  IF matches = {}
           THEN /\ Exit(1)
                /\ UNCHANGED <<build_root, tmp_root, fs, runs>>
           ELSE LET k == CHOOSE m \in matches : \A j \in matches : m <= j
                    made == from_dict(ds[k])
                IN  IF ~ made.ok
                    THEN /\ Exit(1)
                         /\ UNCHANGED <<build_root, tmp_root, fs, runs>>
                    ELSE /\ Construct(argv.output, argv.temp)
                         /\ \E env \in Envs(made.val) :
                               runs' = Append(runs,
                                   NewRun(k, made.val, env, "running"))
                         /\ pc' = "begin"
                         /\ UNCHANGED exitCode
    /\ UNCHANGED <<fixed, packages, idx>>

\* load_packages: "use config paths if available", a path of the
\* configuration replaces the root of the constructor when it is truthy
path_if_available_always(path, root) == path

path_if_available(path, root) == IF Truthy(path) THEN path ELSE root

\* SlackwarePackageBuilder.load_packages with ConfigLoader.load_packages
LoadPackages ==
    /\ pc = "load"
    /\ IF config.state # "ok"
       THEN /\ Exit(1)
            /\ UNCHANGED <<packages, build_root, tmp_root, fs>>
       ELSE LET data == config.data
                made == [k \in 1..Len(data.packages) |->
                            FromDict(data.packages[k])]
                output_path == Get(data, "output_path", S_output)
                temp_path == Get(data, "temp_path", S_tmp)
            IN  IF \E k \in 1..Len(made) : ~ made[k].ok
                THEN /\ Exit(1)
                     /\ UNCHANGED <<packages, build_root, tmp_root, fs>>
                ELSE /\ packages' = [k \in 1..Len(made) |-> made[k].val]
                     /\ build_root' = path_if_available(output_path, build_root)
                     /\ tmp_root' = path_if_available(temp_path, tmp_root)
                     /\ fs' = fs \cup {build_root', tmp_root'}
                     /\ pc' = "loop"
                     /\ UNCHANGED exitCode
    /\ UNCHANGED <<fixed, idx, runs>>

\* build_all_packages: the loop header, the skip of a disabled package and
\* the end of the run
LoopNext ==
    /\ pc \in {"loop", "returned"}
    /\ Batch
    /\ IF idx = Len(packages)
       THEN /\ Exit(0)
            /\ UNCHANGED <<idx, runs>>
       ELSE LET pkg == packages[idx + 1]
            IN  /\ idx' = idx + 1
                /\ UNCHANGED exitCode
                /\ IF ~ pkg.enabled
                   THEN /\ runs' = Append(runs,
                               NewRun(idx + 1, pkg, NoEnv, "skipped"))
                        /\ pc' = "loop"
                   ELSE /\ \E env \in Envs(pkg) :
                              runs' = Append(runs,
                                  NewRun(idx + 1, pkg, env, "running"))
                        /\ pc' = "begin"
    /\ UNCHANGED <<fixed, packages, build_root, tmp_root, fs>>

\* build_single_package_direct: the test of the release flag (the legacy
\* loop body has none)
is_release_never(pkg) == FALSE

is_release(pkg) == prog = "modular" /\ pkg.release

\* except Exception of the package's try block: the exception is printed
\* and the package has failed
except_Exception_reraising(r) == [r EXCEPT !.status = "raised"]

except_Exception(r) == [r EXCEPT !.status = "failed"]

\* the result of a stage that did not succeed: it returned a failure, or
\* raised and the handler took over
Failed(r, raised) ==
    IF raised THEN except_Exception(r) ELSE [r EXCEPT !.status = "failed"]

\* an exception no handler catches: the interpreter prints the traceback
\* and exits with status 1
Uncaught(r) ==
    /\ SetCur([r EXCEPT !.status = "raised"])
    /\ Exit(1)

\* build_single_package_direct up to the try block (the loop body of the
\* legacy build_all_packages): the output and temporary directories
BeginPackage ==
    /\ pc = "begin"
    /\ LET r == Cur
           pkg == r.pkg
           output_dir == output_dir_of(build_root, pkg.name)
           temp_dir == temp_dir_of(tmp_root, pkg.name)
       IN  IF r.env.fault = "mkdir_output"
           THEN Uncaught(r) /\ UNCHANGED fs
           ELSE IF is_release(pkg)
           THEN /\ SetCur(Did(r, "mkdir_output"))
                /\ fs' = fs \cup {output_dir}
                /\ pc' = "download"
                /\ UNCHANGED exitCode
           ELSE IF r.env.fault = "mkdir_temp"
           THEN /\ Uncaught(Did(r, "mkdir_output"))
                /\ fs' = fs \cup {output_dir}
           ELSE /\ SetCur(Did(Did(r, "mkdir_output"), "mkdir_temp"))
                /\ fs' = fs \cup {output_dir, temp_dir}
                /\ pc' = "clone"
                /\ UNCHANGED exitCode
    /\ UNCHANGED <<fixed, packages, build_root, tmp_root, idx>>

\* build_single_package_direct, the release branch
DownloadRelease ==
    /\ pc = "download"
    /\ LET r == Cur
           pkg == r.pkg
           output_file == Join(output_dir_of(build_root, pkg.name),
                               release_filename(pkg, S_x86_64))
           res == download_release(pkg, output_dir_of(build_root, pkg.name),
                                   r.env)
           r1 == [r EXCEPT !.ops = @ \o res.ops,
                           !.curl_target =
                               IF res.ops = <<>> THEN @ ELSE output_file]
       IN  IF res.ret = "output_file"
           THEN /\ SetCur([r1 EXCEPT !.status = "success",
                                     !.artifact = output_file])
                /\ fs' = fs \cup {output_file}
           ELSE /\ SetCur(Failed(r1, res.ret = "raise"))
                /\ \E partial \in IF res.ops = <<>> THEN {FALSE} ELSE BOOLEAN :
                      fs' = IF partial THEN fs \cup {output_file} ELSE fs
    /\ pc' = "returned"
    /\ UNCHANGED <<fixed, packages, build_root, tmp_root, idx, exitCode>>

\* the try block: the clone
Clone ==
    /\ pc = "clone"
    /\ LET r == Cur
           pkg == r.pkg
           temp_dir == temp_dir_of(tmp_root, pkg.name)
           res == clone_or_update(pkg, r.env)
           r1 == [r EXCEPT !.ops = @ \o res.ops]
       IN  IF res.ret = "repo_path"
           THEN /\ SetCur(r1)
                /\ fs' = fs \cup {repo_path_of(temp_dir, pkg.name)}
                /\ pc' = "build"
           ELSE /\ SetCur(Failed(r1, res.ret = "raise"))
                /\ pc' = "finally"
                /\ UNCHANGED fs
    /\ UNCHANGED <<fixed, packages, build_root, tmp_root, idx, exitCode>>

\* the try block: the staging directory and build_package
Build ==
    /\ pc = "build"
    /\ LET r == Cur
           pkg == r.pkg
           install_dir == install_dir_of(temp_dir_of(tmp_root, pkg.name))
           res == build_package(pkg, r.env)
           r1 == [r EXCEPT !.ops = (@ \o <<"mkdir_staging">>) \o res.ops]
       IN  IF r.env.fault = "mkdir_staging"
           THEN /\ SetCur(Failed(r, TRUE))
                /\ pc' = "finally"
                /\ UNCHANGED fs
           ELSE /\ fs' = fs \cup {install_dir}
                /\ IF res.ret = "True"
                   THEN /\ SetCur(r1)
                        /\ pc' = "slack_desc"
                   ELSE /\ SetCur(Failed(r1, res.ret = "raise"))
                        /\ pc' = "finally"
    /\ UNCHANGED <<fixed, packages, build_root, tmp_root, idx, exitCode>>

\* the try block: create_slack_desc
SlackDesc ==
    /\ pc = "slack_desc"
    /\ LET r == Cur
       IN  IF r.env.fault = "slack_desc_raise"
           THEN /\ SetCur(Failed(r, TRUE))
                /\ pc' = "finally"
           ELSE /\ SetCur(Did(r, "slack_desc"))
                /\ pc' = "archive"
    /\ UNCHANGED <<fixed, packages, build_root, tmp_root, idx, fs, exitCode>>

\* the try block: create_package_archive and the result
Archive ==
    /\ pc = "archive"
    /\ LET r == Cur
           pkg == r.pkg
           output_file == Join(output_dir_of(build_root, pkg.name),
                               pkg_filename(pkg, S_x86_64))
           res == create_package_archive(pkg, r.env)
           r1 == [r EXCEPT !.ops = @ \o res.ops]
       IN  IF res.ret = "output_file"
           THEN /\ SetCur([r1 EXCEPT !.status = "success",
                                     !.artifact = output_file])
                /\ fs' = fs \cup {output_file}
           ELSE /\ SetCur(Failed(r1, res.ret = "raise"))
                /\ \E partial \in BOOLEAN :
                      fs' = IF partial THEN fs \cup {output_file} ELSE fs
    /\ pc' = "finally"
    /\ UNCHANGED <<fixed, packages, build_root, tmp_root, idx, exitCode>>

\* the finally block: the temporary directory is removed, errors ignored
Finally ==
    /\ pc = "finally"
    /\ LET r == Cur
           temp_dir == temp_dir_of(tmp_root, r.pkg.name)
       IN  IF temp_dir \in fs
           THEN /\ SetCur(Did(r, "rmtree"))
                /\ fs' = IF r.env.fault = "rmtree_fail"
                         THEN fs
                         ELSE rmtree(fs, temp_dir)
           ELSE UNCHANGED <<runs, fs>>
    /\ pc' = "returned"
    /\ UNCHANGED <<fixed, packages, build_root, tmp_root, idx, exitCode>>

\* main() in --package mode after build_single_package_direct returned
ExitSingle ==
    /\ pc = "returned"
    /\ ~ Batch
    /\ Exit(IF Cur.status = "success" THEN 0 ELSE 1)
    /\ UNCHANGED <<fixed, packages, build_root, tmp_root, idx, runs, fs>>

Next ==
    \/ Main
    \/ FindPackage
    \/ LoadPackages
    \/ LoopNext
    \/ BeginPackage
    \/ DownloadRelease
    \/ Clone
    \/ Build
    \/ SlackDesc
    \/ Archive
    \/ Finally
    \/ ExitSingle

Spec == Init /\ [][Next]_vars

-----------------------------------------------------------------------------
(* Specifications of the pure functions: the input is drawn by the initial *)
(* state and one action applies the function.                              *)

PureInit(start, inputs) ==
    /\ prog = "modular"
    /\ argv = [package |-> NoneValue, output |-> S_build_dir, temp |-> S_tmp]
    /\ config = [state |-> "missing"]
    /\ packages = <<>>
    /\ build_root = NoneValue
    /\ tmp_root = NoneValue
    /\ idx = 0
    /\ pc = start
    /\ runs = <<>>
    /\ fs = {}
    /\ exitCode = -1
    /\ inp \in inputs
    /\ out = <<>>

Apply(from, to, result) ==
    /\ pc = from
    /\ pc' = to
    /\ out' = result
    /\ UNCHANGED <<prog, argv, config, packages, build_root, tmp_root, idx,
                   runs, fs, exitCode, inp>>

\* longest tag drawn
MaxTagLen == 3

TagChars == {"v", "V", "1", "a", "."}

Tags == UNION {[1..n -> TagChars] : n \in 0..MaxTagLen}

\* Package.__init__ on a tag: the derived version
InitVersion == PureInit("tag", Tags)

DeriveVersion ==
    Apply("tag", "version",
          Package(S_foo, S_url, inp, <<>>, 1, TRUE, FALSE, NoneValue,
                  NoneValue).version)

NextVersion == DeriveVersion

SpecVersion == InitVersion /\ [][NextVersion]_vars

\* construct_release_url on a release package
ReleaseUrls ==
    { S_url, <<"h", "/", "r">>, <<"h", "/", "r", ".", "g", "i", "t", "/">>,
      <<"h", "/", "r", "/", "/">>, <<"h", ".", "g", "i", "t", ".", "g", "i", "t">>,
      <<".", "g", "i", "t">>, <<"g", "i", "t">> }

ReleaseTags == {S_v1, S_one, <<"v">>, <<"v", "a">>, <<"m", "a", "i", "n">>}

ReleasePackages ==
    { Package(n, u, t, <<>>, b, TRUE, TRUE, NoneValue, NoneValue) :
        n \in {S_foo, S_bar}, u \in ReleaseUrls, t \in ReleaseTags, b \in {1, 12} }

InitRelease == PureInit("release", ReleasePackages)

ConstructReleaseUrl == Apply("release", "url", construct_release_url(inp))

NextRelease == ConstructReleaseUrl

SpecRelease == InitRelease /\ [][NextRelease]_vars

\* create_slack_desc on a description: Words(a, n) is n words of a letters
\* each; the description is n words of one length, then m of another,
\* separated by one blank, or padded and separated by two
MaxWords == 12
MaxTail == 1

WordLens == {1, 29, 30, 59, 60, 61}

RECURSIVE JoinWords(_, _)
JoinWords(words, sep) ==
    IF words = <<>> THEN <<>>
    ELSE IF Len(words) = 1 THEN Head(words)
    ELSE Head(words) \o sep \o JoinWords(Tail(words), sep)

Words(a, n) == [i \in 1..n |-> Repeat("x", a)]

Descriptions ==
    { JoinWords(Words(a, n) \o Words(b, m), <<" ">>) :
        a \in WordLens, n \in 0..MaxWords, b \in WordLens, m \in 0..MaxTail }
    \cup
    { <<" ">> \o JoinWords(Words(a, n) \o Words(b, m), <<" ", "\n">>) \o <<" ">> :
        a \in WordLens, n \in 0..MaxWords, b \in WordLens, m \in 0..MaxTail }

DescPackages ==
    { Package(n, S_url, S_v1, d, 1, TRUE, FALSE, S_make, n) :
        n \in {S_foo, <<"a">>}, d \in Descriptions }

InitDesc == PureInit("description", DescPackages)

CreateSlackDesc == Apply("description", "slack_desc_written", create_slack_desc(inp))

NextDesc == CreateSlackDesc

SpecDesc == InitDesc /\ [][NextDesc]_vars

-----------------------------------------------------------------------------
(* Properties *)

Finished(r) == r.status # "running"

Ran(r, op) == \E i \in 1..Len(r.ops) : r.ops[i] = op

ExpectedFileName(pkg) ==
    pkg.name \o <<"-">> \o pkg.version \o <<"-", "x", "8", "6", "_", "6", "4", "-">>
    \o IntStr(pkg.build) \o <<".", "t", "g", "z">>

ExpectedArchive(pkg) ==
    build_root \o <<"/">> \o S_slackware64_current \o <<"/">> \o pkg.name
    \o <<"/">> \o ExpectedFileName(pkg)

\* C1: in batch mode the packages are handled in configuration order, each
\* once, and when the process has ended after loading them every package
\* has been handled (every enabled one built or failed), whatever happened
\* to the packages before it.
C1_BatchProcessesEveryPackage ==
    Batch =>
        /\ \A k \in 1..Len(runs) : runs[k].idx = k
        /\ (pc = "done" /\ packages # <<>>) =>
              /\ Len(runs) = Len(packages)
              /\ \A k \in 1..Len(runs) :
                    packages[k].enabled =>
                        runs[k].status \in {"failed", "success"}

\* C2: an enabled source package with a build command, in an environment
\* where the clone, the build command and tar exit zero and the binary is
\* there, ends in success with its archive at
\* <output_root>/slackware64-current/<name>/<name>-<version>-x86_64-<build>.tgz.
C2_SourceBuildSucceeds ==
    \A k \in 1..Len(runs) :
        LET r == runs[k]
        IN  ( /\ prog = "modular"
              /\ r.pkg.enabled
              /\ ~ r.pkg.release
              /\ Truthy(r.pkg.build_command)
              /\ r.env.fault = "none"
              /\ r.pkg.bin_path \in r.env.present
              /\ Finished(r) )
            => /\ r.status = "success"
               /\ ExpectedArchive(r.pkg) \in fs

\* C3: a disabled package is never cloned, downloaded, built or archived
\* and is reported as skipped, in batch mode and in --package mode.
C3_DisabledIsSkipped ==
    \A k \in 1..Len(runs) :
        LET r == runs[k]
        IN  ~ r.pkg.enabled =>
               /\ \A op \in {"git_clone", "curl", "build_cmd", "tar"} : ~ Ran(r, op)
               /\ Finished(r) => r.status = "skipped"

\* C4: a package whose build command exited non-zero is failed: neither
\* slack-desc nor tar runs for it and it produces no archive.
C4_BuildFailureStopsPipeline ==
    \A k \in 1..Len(runs) :
        LET r == runs[k]
        IN  (Ran(r, "build_cmd") /\ r.env.fault = "build_nonzero") =>
               /\ r.status = "failed"
               /\ ~ Ran(r, "slack_desc")
               /\ ~ Ran(r, "tar")
               /\ r.artifact = NoneValue

C4_Witness ==
    /\ pc = "returned"
    /\ Ran(Cur, "build_cmd")
    /\ Cur.env.fault = "build_nonzero"
    /\ Cur.status = "failed"

\* C5: a package whose build command exited zero but left none of its
\* requested binaries behind is failed: the build step fails, no archive
\* is produced.
C5_MissingBinaryFails ==
    \A k \in 1..Len(runs) :
        LET r == runs[k]
        IN  ( /\ Ran(r, "build_cmd")
              /\ r.env.fault \notin {"build_nonzero", "build_raise"}
              /\ Requested(r.pkg) \cap r.env.present = {} )
            => /\ r.status = "failed"
               /\ ~ Ran(r, "install")
               /\ ~ Ran(r, "slack_desc")
               /\ ~ Ran(r, "tar")
               /\ r.artifact = NoneValue

C5_Witness ==
    /\ pc = "returned"
    /\ Ran(Cur, "build_cmd")
    /\ Cur.env.fault = "none"
    /\ Requested(Cur.pkg) \cap Cur.env.present = {}
    /\ Cur.status = "failed"

\* C6: for a release package no clone, no build, no temporary or staging
\* directory and no tar: the only steps are the output directory and the
\* download, and a download goes to
\* <output_dir>/<name>-<version>-x86_64-<build>.tgz.
C6_ReleaseOnlyDownloads ==
    \A k \in 1..Len(runs) :
        LET r == runs[k]
        IN  (prog = "modular" /\ r.pkg.release) =>
               /\ \A i \in 1..Len(r.ops) : r.ops[i] \in {"mkdir_output", "curl"}
               /\ temp_dir_of(tmp_root, r.pkg.name) \notin fs
               /\ r.curl_target \in {NoneValue, ExpectedArchive(r.pkg)}
               /\ r.artifact \in {NoneValue, ExpectedArchive(r.pkg)}

C6_Witness ==
    /\ prog = "modular"
    /\ pc = "returned"
    /\ Cur.pkg.release
    /\ Cur.pkg.enabled
    /\ Ran(Cur, "mkdir_output")
    /\ Finished(Cur)

\* C7: construct_release_url returns, for every package,
\* <source url without one trailing .git>/releases/download/<ref>/
\* <name>-<version>-linux64.tgz, and does not fail.
ExpectedReleaseUrl(pkg) ==
    (IF endswith(pkg.git_url, <<".", "g", "i", "t">>)
     THEN SubSeq(pkg.git_url, 1, Len(pkg.git_url) - 4)
     ELSE pkg.git_url)
    \o <<"/", "r", "e", "l", "e", "a", "s", "e", "s", "/",
         "d", "o", "w", "n", "l", "o", "a", "d", "/">>
    \o pkg.tag \o <<"/">> \o pkg.name \o <<"-">> \o pkg.version
    \o <<"-", "l", "i", "n", "u", "x", "6", "4", ".", "t", "g", "z">>

C7_ReleaseUrl ==
    pc = "url" => (out.ok /\ out.val = ExpectedReleaseUrl(inp))

\* C8: the version derived from a non-empty ref is the ref without its
\* leading 'v' when a digit follows that 'v', and the ref itself otherwise.
C8_VersionFromRef ==
    (pc = "version" /\ inp # <<>>) =>
        IF inp[1] = "v" /\ Len(inp) >= 2
           /\ inp[2] \in {"0", "1", "2", "3", "4", "5", "6", "7", "8", "9"}
        THEN out = Tail(inp)
        ELSE out = inp

C8_Witness ==
    /\ pc = "version"
    /\ Len(inp) = 3
    /\ inp[1] = "v"
    /\ inp[2] = "1"
    /\ out = Tail(inp)

\* C9: create_slack_desc writes exactly 11 label lines after the ruler
\* line, each beginning with "<name>:"; with no words in the description
\* they are all exactly "<name>:", and of a longer wrapped text only the
\* first 11 lines are written.
C9_ElevenLabelLines ==
    pc = "slack_desc_written" =>
        LET label == inp.name \o <<":">>
            wrapped == wrap_description(inp.description)
        IN  /\ Len(out) = 8 + 11
            /\ out[8] = ruler_line(inp.name)
            /\ \A i \in 9..Len(out) : startswith(out[i], label)
            /\ split(inp.description) = <<>> =>
                  \A i \in 9..Len(out) : out[i] = label
            /\ \A i \in 1..11 :
                  out[8 + i] = IF i <= Len(wrapped)
                               THEN label \o <<" ">> \o wrapped[i]
                               ELSE label

C9_Witness ==
    /\ pc = "slack_desc_written"
    /\ Len(wrap_description(inp.description)) > 11
    /\ Len(out) = 19

\* C10: the text after "<name>: " on every label line is at most 60
\* characters long.
C10_TextWithinBudget ==
    pc = "slack_desc_written" =>
        \A i \in 9..Len(out) :
            LET prefix == inp.name \o <<":", " ">>
            IN  startswith(out[i], prefix) => Len(out[i]) - Len(prefix) <= 60

\* C11: a label line that carries no description text is exactly "<name>:";
\* no label line "<name>: " (colon, blank, nothing else) is written.
C11_NoTrailingSpace ==
    pc = "slack_desc_written" =>
        \A i \in 9..Len(out) : out[i] # inp.name \o <<":", " ">>

-----------------------------------------------------------------------------
(* The archive path, as the source build and the release download compute *)
(* it for one package and one output root                                  *)

ArchiveTags ==
    {<<"v", "1", ".", "2", ".", "3">>, <<"1", ".", "2", ".", "3">>,
     <<"m", "a", "i", "n">>, S_v1}

ArchiveBuilds == {1, 2, 10}

ArchiveInputs ==
    { [pkg |-> Package(n, S_url, t, S_one, b, TRUE, rel, S_make, n),
       root |-> root] :
        n \in {S_foo, S_bar, <<"a">>}, t \in ArchiveTags, b \in ArchiveBuilds,
        rel \in BOOLEAN, root \in {S_build_dir, S_cfg_out} }

InitArchiveName == PureInit("package", ArchiveInputs)

\* output_file of create_package_archive and of download_release, both
\* called with output_dir and the default arch
OutputFiles ==
    Apply("package", "output_file",
          LET output_dir == output_dir_of(inp.root, inp.pkg.name)
          IN  [source |-> Join(output_dir, pkg_filename(inp.pkg, S_x86_64)),
               release |-> Join(output_dir, release_filename(inp.pkg, S_x86_64))])

NextArchiveName == OutputFiles

SpecArchiveName == InitArchiveName /\ [][NextArchiveName]_vars

\* C12: the archive of a package is
\* <output_root>/slackware64-current/<name>/<name>-<version>-x86_64-<build>.tgz
\* and the source build and the release download compute the same file.
C12_ArchivePath ==
    pc = "output_file" =>
        LET pkg == inp.pkg
            expected ==
                inp.root \o <<"/">>
                \o <<"s", "l", "a", "c", "k", "w", "a", "r", "e", "6", "4",
                     "-", "c", "u", "r", "r", "e", "n", "t">>
                \o <<"/">> \o pkg.name \o <<"/">> \o pkg.name \o <<"-">>
                \o pkg.version
                \o <<"-", "x", "8", "6", "_", "6", "4", "-">>
                \o IntStr(pkg.build) \o <<".", "t", "g", "z">>
        IN  /\ out.source = expected
            /\ out.release = out.source

C12_Witness ==
    /\ pc = "output_file"
    /\ inp.pkg.name = <<"f", "o", "o">>
    /\ inp.pkg.tag = <<"v", "1", ".", "2", ".", "3">>
    /\ inp.pkg.build = 1
    /\ endswith(out.source,
                <<"/", "f", "o", "o", "/", "f", "o", "o", "-", "1", ".", "2",
                  ".", "3", "-", "x", "8", "6", "_", "6", "4", "-", "1", ".",
                  "t", "g", "z">>)
    /\ out.release = out.source

\* C13: when the pipeline of a source-built package returns, whatever the
\* way it ended, the removal of its temporary directory
\* <tmp_root>/<name>-build has been attempted, and unless the removal
\* itself failed nothing of the directory is left.
C13_TempDirRemoved ==
    (pc = "returned" /\ ~ is_release(Cur.pkg) /\ Ran(Cur, "mkdir_temp")) =>
        LET temp_dir == temp_dir_of(tmp_root, Cur.pkg.name)
        IN  /\ Ran(Cur, "rmtree")
            /\ Cur.env.fault # "rmtree_fail" =>
                  \A p \in fs :
                      ~ (p = temp_dir \/ startswith(p, temp_dir \o <<"/">>))

\* an exception in the archiving stage, after the clone and the staging
\* directory filled the temporary directory
C13_Witness ==
    /\ pc = "returned"
    /\ Cur.env.fault = "tar_raise"
    /\ Ran(Cur, "git_clone")
    /\ Ran(Cur, "tar")
    /\ Cur.status = "failed"
    /\ Ran(Cur, "rmtree")
    /\ temp_dir_of(tmp_root, Cur.pkg.name) \notin fs

\* what the run met that counts as a failure: no usable configuration, a
\* record of the batch that is no package, the requested package not
\* found, or a processed package that did not succeed
AnyFailure ==
    \/ config.state # "ok"
    \/ Batch /\ config.state = "ok"
             /\ \E k \in 1..Len(config.data.packages) :
                   ~ FromDict(config.data.packages[k]).ok
    \/ ~ Batch /\ runs = <<>>
    \/ \E k \in 1..Len(runs) : runs[k].status \in {"failed", "raised"}

\* C14: the process exits with 0 when every processed package succeeded
\* and with a non-zero code on any failure, in --package mode and in
\* batch mode.
C14_ExitCode ==
    pc = "done" => (exitCode # 0 <=> AnyFailure)

\* a package record that lacks a required field: name, source url or ref
MissingRequired(d) ==
    ~ ({"name", "git_url", IF prog = "legacy" THEN "branch" ELSE "tag"}
          \subseteq DOMAIN d)

InvalidConfig ==
    \/ config.state # "ok"
    \/ \E k \in 1..Len(config.data.packages) :
          MissingRequired(config.data.packages[k])

ColumnOf(s, c) ==
    IF \E i \in 1..Len(s) : s[i] = c
    THEN CHOOSE i \in 1..Len(s) : s[i] = c /\ \A j \in 1..(i - 1) : s[j] # c
    ELSE 0

\* C16: in the slack-desc file the first "|" of the ruler line is in the
\* column of the ":" that follows the package name on the label lines.
C16_RulerColumn ==
    pc = "slack_desc_written" =>
        \A i \in 9..Len(out) :
            ColumnOf(out[8], "|") = ColumnOf(out[i], ":")

\* the stages of a source build, in the order of the pipeline
StageOrder == <<"git_clone", "build_cmd", "slack_desc", "tar">>

IsStage(op) == \E i \in 1..Len(StageOrder) : StageOrder[i] = op

Stages(r) == SelectSeq(r.ops, IsStage)

\* the stage (by its place in StageOrder) at which the environment of a
\* run makes the pipeline fail; one past the last stage when nothing does
FailStage(r) ==
    IF r.env.fault \in {"clone_nonzero", "clone_raise"} THEN 1
    ELSE IF \/ r.env.fault \in {"mkdir_staging", "build_nonzero", "build_raise"}
            \/ prog = "legacy" /\ r.env.fault = "no_manifest"
            \/ Requested(r.pkg) \cap r.env.present = {}
         THEN 2
    ELSE IF r.env.fault = "slack_desc_raise" THEN 3
    ELSE IF r.env.fault \in {"tar_nonzero", "tar_raise"} THEN 4
    ELSE 5

\* C17: the stages of a source build run only in the order clone, build,
\* slack-desc, tar; no stage runs after a stage that failed, the package
\* whose stage failed ends failed, and success is returned only after tar
\* succeeded.
C17_StageOrder ==
    \A k \in 1..Len(runs) :
        LET r == runs[k]
            st == Stages(r)
        IN  (~ is_release(r.pkg) /\ r.status # "skipped") =>
               /\ Len(st) <= Len(StageOrder)
               /\ st = SubSeq(StageOrder, 1, Len(st))
               /\ Len(st) <= FailStage(r)
               /\ (Finished(r) /\ FailStage(r) <= Len(StageOrder)) =>
                     r.status \in {"failed", "raised"}
               /\ r.status = "success" =>
                     (st = StageOrder /\ FailStage(r) > Len(StageOrder))

C17_Witness ==
    /\ pc = "returned"
    /\ ~ is_release(Cur.pkg)
    /\ Cur.status = "success"
    /\ Stages(Cur) = StageOrder

-----------------------------------------------------------------------------
(* build_package of the modular orchestrator on one package in one         *)
(* environment                                                             *)

DispatchPackages ==
    { from_dict(d).val : d \in {e \in ModularDicts : from_dict(e).ok} }
    \cup { Package(S_foo, S_url, S_v1, S_one, 1, TRUE, FALSE, c, S_baz) :
              c \in {<<>>, NoneValue, S_make} }

DispatchInputs ==
    { [pkg |-> p, env |-> e] : p \in DispatchPackages, e \in UNION {Envs(q) : q \in DispatchPackages} }

InitDispatch == PureInit("package_env", DispatchInputs)

\* build_package: the builders that claim the package, in list order, and
\* what the call returns
BuildPackage ==
    Apply("package_env", "dispatched",
          [claimed_by |-> SelectSeq(Builders,
                              LAMBDA b : Builder_can_build(b, inp.pkg, inp.env)),
           result |-> build_package(inp.pkg, inp.env)])

NextDispatch == BuildPackage

SpecDispatch == InitDispatch /\ [][NextDispatch]_vars

Unclaimed(r) ==
    \A k \in 1..Len(Builders) : ~ Builder_can_build(Builders[k], r.pkg, r.env)

\* C19: when no build strategy claims a package, build_package fails
\* without running a build process, and the package ends failed with no
\* slack-desc written and no archive produced.
C19_NoBuilderFails ==
    \A k \in 1..Len(runs) :
        LET r == runs[k]
        IN  (Ran(r, "mkdir_staging") /\ Unclaimed(r)) =>
               /\ ~ Ran(r, "build_cmd")
               /\ ~ Ran(r, "install")
               /\ ~ Ran(r, "slack_desc")
               /\ ~ Ran(r, "tar")
               /\ r.artifact = NoneValue
               /\ r.status = "failed"

C19_Witness ==
    /\ pc = "returned"
    /\ Ran(Cur, "git_clone")
    /\ Ran(Cur, "mkdir_staging")
    /\ Unclaimed(Cur)
    /\ Cur.status = "failed"
    /\ ~ Ran(Cur, "build_cmd")

\* the environments in which a stage of the pipeline raises an exception:
\* the clone, the staging directory or the build, the slack-desc file,
\* the archive, the download
StageRaises ==
    {"clone_raise", "mkdir_staging", "build_raise", "slack_desc_raise",
     "tar_raise", "curl_raise"}

\* a stage of the run has raised: its environment's exception was met
\* (the stage before it was passed), or the stage read a missing attribute
RaisedInStage(r) ==
    \/ r.env.fault = "clone_raise" /\ Ran(r, "git_clone")
    \/ r.env.fault = "mkdir_staging" /\ Ran(r, "git_clone") /\ Finished(r)
    \/ r.env.fault = "build_raise" /\ Ran(r, "build_cmd")
    \/ r.env.fault = "slack_desc_raise" /\ Ran(r, "install") /\ Finished(r)
    \/ r.env.fault = "tar_raise" /\ Ran(r, "tar")
    \/ r.env.fault = "curl_raise" /\ Ran(r, "curl")
    \/ /\ ~ HasAttr(r.pkg, "branch")
       /\ Finished(r)
       /\ r.status # "skipped"
       /\ r.env.fault \notin {"mkdir_output", "mkdir_temp"}

\* C20: an exception raised in a stage of a package's pipeline (clone,
\* build, slack-desc, archive, release download) is caught for that
\* package and becomes its failure; it does not leave
\* build_single_package_direct and does not end the batch.
C20_ExceptionsCaught ==
    \A k \in 1..Len(runs) :
        LET r == runs[k]
        IN  RaisedInStage(r) =>
               /\ r.status = "failed"
               /\ (pc = "done" /\ Batch /\ k = Len(runs)) =>
                      (r.idx = Len(packages) /\ exitCode = 0)

C20_Witness ==
    /\ Batch
    /\ Len(runs) = 2
    /\ runs[1].env.fault = "tar_raise"
    /\ Ran(runs[1], "tar")
    /\ runs[1].status = "failed"
    /\ runs[2].status = "success"

\* the roots are settled: the batch has loaded its configuration, or a
\* package's pipeline has been started
RootsSettled == pc = "loop" \/ runs # <<>>

\* what the pipelines made lies under the roots of the orchestrator
UnderRoots ==
    /\ \A k \in 1..Len(runs) :
          /\ Ran(runs[k], "mkdir_output") =>
                output_dir_of(build_root, runs[k].pkg.name) \in fs
          /\ runs[k].artifact # NoneValue =>
                startswith(runs[k].artifact, build_root \o <<"/">>)
    /\ pc = "clone" => temp_dir_of(tmp_root, Cur.pkg.name) \in fs

\* C21: in batch mode the output and temporary roots of every package are
\* the configuration's output_path and temp_path ("output" and "tmp" when
\* the keys are absent), whatever --output and --temp say; in --package
\* mode they are the --output and --temp values.
C21_Roots ==
    RootsSettled =>
        /\ UnderRoots
        /\ IF Batch
           THEN /\ build_root = Get(config.data, "output_path", S_output)
                /\ tmp_root = Get(config.data, "temp_path", S_tmp)
           ELSE /\ build_root = argv.output
                /\ tmp_root = argv.temp

\* C21 as the code has it: a path of the configuration that is empty or
\* null does not replace the --output or --temp value.
C21_RootsWhenAvailable ==
    RootsSettled =>
        /\ UnderRoots
        /\ IF Batch
           THEN LET output_path == Get(config.data, "output_path", S_output)
                    temp_path == Get(config.data, "temp_path", S_tmp)
                IN  /\ build_root = IF output_path \in {<<>>, NoneValue}
                                    THEN argv.output ELSE output_path
                    /\ tmp_root = IF temp_path \in {<<>>, NoneValue}
                                  THEN argv.temp ELSE temp_path
           ELSE /\ build_root = argv.output
                /\ tmp_root = argv.temp

\* a batch whose configuration names an output root and no temporary
\* root, with a package's directories made
C21_Witness ==
    /\ Batch
    /\ pc = "clone"
    /\ "output_path" \in DOMAIN config.data
    /\ "temp_path" \notin DOMAIN config.data
    /\ build_root = config.data.output_path
    /\ build_root # argv.output
    /\ tmp_root = <<"t", "m", "p">>
    /\ output_dir_of(config.data.output_path, Cur.pkg.name) \in fs

====
